---- MODULE Spec2Model ----
(***************************************************************************)
(* Request-deduplication pipeline of reciprocal-merge-proxy.               *)
(*                                                                         *)
(*   intake  : src/src/lambda/processRequest.ts, handler (lines 13-191)    *)
(*   worker  : src/unnamed/part_001, handler (lines 14-137) and            *)
(*             processApiRequest (lines 139-165)                           *)
(*   wiring  : src/lib/reciprocal-merge-proxy-stack.ts                     *)
(*                                                                         *)
(* The ledger is the DynamoDB table RequestQueue (key requestId, stream    *)
(* NEW_IMAGE, TTL attribute ttl), the Result Store is the S3 bucket.       *)
(* Every await of a handler is a step boundary: an action is the landing   *)
(* of the awaited operation together with the synchronous code that runs   *)
(* up to the next await.                                                   *)
(***************************************************************************)
EXTENDS Integers, Sequences, FiniteSets, TLC

\* ------------------------------------------------------------ bounds
MaxSubmits == 3      \* intake invocations in one behaviour of Spec
MaxSeqSubmits == 5   \* intake invocations in one behaviour of SpecSeq
MaxFaults == 1       \* ledger / store operations that fail in one behaviour
MaxTicks == 1        \* clock advances in one behaviour
MaxRedeliveries == 1 \* stream records handed to the worker a second time
MaxClockSubmits == 2 \* intake invocations in one behaviour of SpecClock

\* ------------------------------------------------- program constants
RetentionSecs == 3600      \* processRequest.ts:153   now + (60 * 60)
TimerSecs == 60            \* part_001:77             setTimeout(..., 60000)
WorkerBudgetSecs == 70     \* stack.ts:44             worker timeout
IntakeBudgetSecs == 10     \* stack.ts:65             intake timeout

\* ------------------------------------------------------------ values
Undefined == "<undefined>"   \* a JSON field or item attribute that is absent
NoNum == 0 - 1               \* a numeric item attribute that is absent

\* The request bodies clients post: {cookie, dea}.  Two of them are invalid
\* (an empty and a missing field).
Inputs ==
  { <<"a", "b:c">>, <<"", "c">>, <<"a:b", Undefined>> }

\* !x of JavaScript for the values a body field can take here
Falsy(x) == x = Undefined \/ x = ""

\* crypto.createHash('sha256').update(s).digest('hex'), injective on s
Sha256Hex(s) == "sha256(" \o s \o ")"

RequestId(cookie, dea) == Sha256Hex(cookie \o ":" \o dea)

S3KeyOf(requestId) == "responses/" \o requestId \o ".html"

ValidInputs == { i \in Inputs : ~Falsy(i[1]) /\ ~Falsy(i[2]) }
RequestIds == { RequestId(i[1], i[2]) : i \in ValidInputs }

\* What one upstream fetch can produce: an HTTP response or a network error.
UpstreamOutcomes ==
  { [kind |-> "response", status |-> 200, text |-> "<html>OK</html>"],
    [kind |-> "response", status |-> 500, text |-> "<html>ERR</html>"],
    [kind |-> "response", status |-> 302, text |-> ""],
    [kind |-> "neterr", status |-> 0, text |-> ""] }

\* ------------------------------------------------------------- items
\* A RequestRecord as the table holds it; an attribute the item lacks is
\* Undefined (NoNum for the numeric ones).
Item(requestId, status, s3Key, cookie, dea, createdAt, ttl) ==
  [requestId |-> requestId, status |-> status, s3Key |-> s3Key,
   cookie |-> cookie, dea |-> dea, createdAt |-> createdAt, ttl |-> ttl]

NoItem == Item(Undefined, Undefined, Undefined, Undefined, Undefined, NoNum, NoNum)

queued == "queued"
inProgress == "in-progress"
complete == "complete"

\* ------------------------------------------- DynamoDB and S3 commands
\* A table (a bucket) is a function whose domain is the set of keys present.
Without(f, k) == [x \in DOMAIN f \ {k} |-> f[x]]
With(f, k, v) == [x \in DOMAIN f \cup {k} |-> IF x = k THEN v ELSE f[x]]

\* GetCommand: the item, whatever its ttl (expired items stay readable until
\* the TTL sweep removes them)
GetItem(tbl, id) == IF id \in DOMAIN tbl THEN tbl[id] ELSE NoItem

\* PutCommand without ConditionExpression: creates or replaces the item
PutItem(tbl, item) == With(tbl, item.requestId, item)

\* DeleteCommand / DeleteObjectCommand: deleting an absent key is no error
DeleteItem(tbl, id) == Without(tbl, id)

\* UpdateCommand 'SET #status = :status [, #s3Key = :s3Key]' without
\* ConditionExpression: edits the item, or creates one holding only the key
\* and the attributes set
UpdateItem(tbl, id, status, s3Key) ==
  IF id \in DOMAIN tbl
    THEN [tbl EXCEPT ![id].status = status,
                     ![id].s3Key = IF s3Key = Undefined THEN @ ELSE s3Key]
    ELSE With(tbl, id, Item(id, status, s3Key, Undefined, Undefined, NoNum, NoNum))

\* The stream record (StreamViewType NEW_IMAGE) a write of item id leaves;
\* a write that changes nothing leaves none.
StreamRecords(old, new, id) ==
  IF id \notin DOMAIN old /\ id \in DOMAIN new
    THEN << [eventName |-> "INSERT", hasImage |-> TRUE, NewImage |-> new[id]] >>
  ELSE IF id \in DOMAIN old /\ id \notin DOMAIN new
    THEN << [eventName |-> "REMOVE", hasImage |-> FALSE, NewImage |-> NoItem] >>
  ELSE IF id \in DOMAIN old /\ old[id] # new[id]
    THEN << [eventName |-> "MODIFY", hasImage |-> TRUE, NewImage |-> new[id]] >>
  ELSE << >>

\* Body?.transformToString() || ''
TransformToString(obj) == IF obj = Undefined THEN "" ELSE obj

\* ------------------------------------------------------------- state
VARIABLES
  now,        \* Math.floor(Date.now() / 1000), as an offset in seconds
  ticks,      \* clock advances so far
  faults,     \* failed ledger / store operations so far
  ledger,     \* the RequestQueue table: requestId -> item
  bucket,     \* the responses bucket: key -> body
  stream,     \* per item, the stream records not yet handed to the worker
  calls,      \* intake invocations
  worker,     \* per item, the worker invocation handling its stream record
  hist        \* per item, what happened so far (history only)

vars == << now, ticks, faults, ledger, bucket, stream, calls, worker, hist >>

CallIds == 1 .. (IF MaxSeqSubmits > MaxSubmits THEN MaxSeqSubmits ELSE MaxSubmits)

IdleCall ==
  [pc |-> "idle", cookie |-> Undefined, dea |-> Undefined, requestId |-> Undefined,
   record |-> NoItem, newRecord |-> NoItem, responseData |-> "",
   ddbDel |-> "none", s3Del |-> "none",
   statusCode |-> 0, status |-> "", body |-> "",
   \* history only: whether no other invocation for the identity ran meanwhile,
   \* whether a write of this one changed the ledger or the bucket, the status
   \* its get found, whether a completed result was waiting when its get
   \* landed, and the body of that result
   alone |-> TRUE, mutated |-> FALSE, saw |-> "", ready |-> FALSE,
   expect |-> Undefined]

InFlight(c) == calls[c].pc \notin {"idle", "done"}

\* return { statusCode, body }: the invocation's locals go away
Respond(call, code, status, body) ==
  [call EXCEPT !.pc = "done", !.statusCode = code, !.status = status, !.body = body,
               !.record = NoItem, !.newRecord = NoItem, !.responseData = ""]

Emit(id, old, new) == [stream EXCEPT ![id] = @ \o StreamRecords(old, new, id)]

\* --------------------------------------------------- intake: handler
\* Variant that validates the cookie only.
InvalidInputCookieOnly(cookie, dea) == Falsy(cookie)

\* const { cookie, dea } = body; if (!cookie || !dea) return 400
InvalidInput(cookie, dea) == Falsy(cookie) \/ Falsy(dea)

\* POST with body {cookie, dea}: validation, identity, GetCommand sent
Submit(c, cookie, dea) ==
  /\ calls[c].pc = "idle"
  /\ \A d \in CallIds : d < c => calls[d].pc # "idle"
  /\ LET id == RequestId(cookie, dea)
         busy == { d \in CallIds : InFlight(d) /\ calls[d].requestId = id }
         started == [calls[c] EXCEPT !.cookie = cookie, !.dea = dea]
     IN  calls' =
           IF InvalidInput(cookie, dea)
             THEN [calls EXCEPT ![c] =
                     Respond(started, 400, "", "Missing required parameters")]
             ELSE [d \in CallIds |->
                     IF d = c
                       THEN [started EXCEPT !.pc = "get", !.requestId = id,
                                            !.alone = (busy = {})]
                     ELSE IF d \in busy THEN [calls[d] EXCEPT !.alone = FALSE]
                     ELSE calls[d]]
  /\ UNCHANGED << now, ticks, faults, ledger, bucket, stream, worker, hist >>

\* A ledger or store operation may fail (store unavailable): it then throws
\* and has no effect.
MayFail == faults < MaxFaults

\* Variant without the `case requestStatus.queued` arm: a queued record falls
\* through to the creation of a new one.
IntakeGetDoneNoQueuedCase(call, item, time) ==
  IF item # NoItem /\ item.status = complete
    THEN IF Falsy(item.s3Key)
           THEN Respond(call, 500, "", "Response data not found")
           ELSE [call EXCEPT !.pc = "s3get", !.record = item]
  ELSE IF item # NoItem /\ item.status = inProgress
    THEN Respond(call, 202, inProgress, "Request is being processed")
  ELSE [call EXCEPT !.pc = "put",
          !.newRecord = Item(call.requestId, queued, Undefined, call.cookie,
                             call.dea, time, time + RetentionSecs)]

\* await docClient.send(getCommand) lands; the switch on record.status, or
\* the construction of newRecord and the PutCommand sent
IntakeGetDone(call, item, time) ==
  IF item # NoItem /\ item.status = complete
    THEN IF Falsy(item.s3Key)
           THEN Respond(call, 500, "", "Response data not found")
           ELSE [call EXCEPT !.pc = "s3get", !.record = item]
  ELSE IF item # NoItem /\ item.status = inProgress
    THEN Respond(call, 202, inProgress, "Request is being processed")
  ELSE IF item # NoItem /\ item.status = queued
    THEN Respond(call, 202, queued, "Request is queued for processing")
  ELSE [call EXCEPT !.pc = "put",
          !.newRecord = Item(call.requestId, queued, Undefined, call.cookie,
                             call.dea, time, time + RetentionSecs)]

Delivered(id) ==
  Cardinality({ c \in CallIds : calls[c].requestId = id /\ calls[c].statusCode = 200 })

IntakeGet(c) ==
  /\ calls[c].pc = "get"
  /\ LET id == calls[c].requestId
         item == GetItem(ledger, id)
         seen == [calls[c] EXCEPT
                    !.saw = IF item = NoItem THEN "absent" ELSE item.status,
                    !.ready = hist[id].completions > Delivered(id),
                    !.expect = hist[id].completedBody]
     IN  calls' = [calls EXCEPT ![c] = IntakeGetDone(seen, item, now)]
  /\ UNCHANGED << now, ticks, faults, ledger, bucket, stream, worker, hist >>

\* any awaited send of the handler throws outside the inner try: the outer
\* catch answers 500
IntakeGetFails(c) ==
  /\ calls[c].pc = "get"
  /\ MayFail
  /\ faults' = faults + 1
  /\ calls' = [calls EXCEPT ![c] = Respond(@, 500, "", "Failed to process request")]
  /\ UNCHANGED << now, ticks, ledger, bucket, stream, worker, hist >>

\* GetObjectCommand lands and the body is read; Promise.all sends both deletes
IntakeS3Get(c) ==
  /\ calls[c].pc = "s3get"
  /\ calls[c].record.s3Key \in DOMAIN bucket
  /\ calls' = [calls EXCEPT ![c] =
                 [@ EXCEPT !.pc = "cleanup", !.ddbDel = "pending", !.s3Del = "pending",
                           !.responseData =
                              TransformToString(bucket[calls[c].record.s3Key])]]
  /\ UNCHANGED << now, ticks, faults, ledger, bucket, stream, worker, hist >>

\* Variant whose inner catch also removes the record.
IntakeS3GetFailsAndDeletes(c) ==
  /\ calls[c].pc = "s3get"
  /\ calls[c].record.s3Key \notin DOMAIN bucket
  /\ ledger' = DeleteItem(ledger, calls[c].requestId)
  /\ stream' = Emit(calls[c].requestId, ledger, ledger')
  /\ calls' = [calls EXCEPT ![c] =
                 Respond(@, 500, "", "Failed to retrieve response data")]
  /\ UNCHANGED << now, ticks, faults, bucket, worker, hist >>

\* GetObjectCommand throws (NoSuchKey, or the store fails): the inner catch
IntakeS3GetFails(c) ==
  /\ calls[c].pc = "s3get"
  /\ \/ calls[c].record.s3Key \notin DOMAIN bucket /\ faults' = faults
     \/ MayFail /\ faults' = faults + 1
  /\ calls' = [calls EXCEPT ![c] =
                 Respond(@, 500, "", "Failed to retrieve response data")]
  /\ UNCHANGED << now, ticks, ledger, bucket, stream, worker, hist >>

\* Promise.all([DeleteCommand, DeleteObjectCommand]): it rejects with the
\* first rejection (the inner catch answers 500) and resolves when both have
\* resolved (200 with responseData); a delete already sent lands all the same.
Settled(call) ==
  IF call.ddbDel = "failed" \/ call.s3Del = "failed"
    THEN IF call.statusCode = 0
           THEN [call EXCEPT !.statusCode = 500,
                             !.body = "Failed to retrieve response data",
                             !.pc = IF "pending" \in {call.ddbDel, call.s3Del}
                                      THEN "cleanup" ELSE "done",
                             !.record = IF "pending" \in {call.ddbDel, call.s3Del}
                                          THEN @ ELSE NoItem,
                             !.responseData = ""]
           ELSE [call EXCEPT !.pc = "done", !.record = NoItem]
  ELSE IF call.ddbDel = "ok" /\ call.s3Del = "ok"
    THEN Respond(call, 200, "", call.responseData)
  ELSE call

\* Variant whose DeleteCommand resolves without removing the item.
IntakeKeepRecord(c) ==
  /\ calls[c].pc = "cleanup" /\ calls[c].ddbDel = "pending"
  /\ calls' = [calls EXCEPT ![c] = Settled([@ EXCEPT !.ddbDel = "ok"])]
  /\ UNCHANGED << now, ticks, faults, ledger, bucket, stream, worker, hist >>

IntakeDeleteRecord(c) ==
  /\ calls[c].pc = "cleanup" /\ calls[c].ddbDel = "pending"
  /\ LET id == calls[c].requestId
         new == DeleteItem(ledger, id)
     IN  /\ ledger' = new
         /\ stream' = Emit(id, ledger, new)
         /\ calls' = [calls EXCEPT ![c] =
                        Settled([@ EXCEPT !.ddbDel = "ok",
                                          !.mutated = @ \/ new # ledger])]
  /\ UNCHANGED << now, ticks, faults, bucket, worker, hist >>

IntakeDeleteRecordFails(c) ==
  /\ calls[c].pc = "cleanup" /\ calls[c].ddbDel = "pending"
  /\ MayFail
  /\ faults' = faults + 1
  /\ calls' = [calls EXCEPT ![c] = Settled([@ EXCEPT !.ddbDel = "failed"])]
  /\ UNCHANGED << now, ticks, ledger, bucket, stream, worker, hist >>

IntakeDeleteObject(c) ==
  /\ calls[c].pc = "cleanup" /\ calls[c].s3Del = "pending"
  /\ LET new == DeleteItem(bucket, calls[c].record.s3Key)
     IN  /\ bucket' = new
         /\ calls' = [calls EXCEPT ![c] =
                        Settled([@ EXCEPT !.s3Del = "ok",
                                          !.mutated = @ \/ new # bucket])]
  /\ UNCHANGED << now, ticks, faults, ledger, stream, worker, hist >>

IntakeDeleteObjectFails(c) ==
  /\ calls[c].pc = "cleanup" /\ calls[c].s3Del = "pending"
  /\ MayFail
  /\ faults' = faults + 1
  /\ calls' = [calls EXCEPT ![c] = Settled([@ EXCEPT !.s3Del = "failed"])]
  /\ UNCHANGED << now, ticks, ledger, bucket, stream, worker, hist >>

\* History: a put that creates the item opens a retention window unless one
\* opened by an earlier creation is still running.
Created(h, isNew, createdAt) ==
  IF ~isNew THEN h
  ELSE IF h.windowStart # NoNum /\ createdAt <= h.windowStart + RetentionSecs
    THEN [h EXCEPT !.created = @ + 1]
  ELSE [h EXCEPT !.created = @ + 1, !.windowStart = createdAt, !.callsInWindow = 0]

\* await docClient.send(new PutCommand({ Item: newRecord })) lands; 202 queued
IntakePut(c) ==
  /\ calls[c].pc = "put"
  /\ LET id == calls[c].requestId
         new == PutItem(ledger, calls[c].newRecord)
     IN  /\ ledger' = new
         /\ stream' = Emit(id, ledger, new)
         /\ hist' = [hist EXCEPT ![id] = Created(@, id \notin DOMAIN ledger,
                                                  calls[c].newRecord.createdAt)]
         /\ calls' = [calls EXCEPT ![c] =
                        Respond([@ EXCEPT !.mutated = @ \/ new # ledger],
                                202, queued, "Request has been queued for processing")]
  /\ UNCHANGED << now, ticks, faults, bucket, worker >>

IntakePutFails(c) ==
  /\ calls[c].pc = "put"
  /\ MayFail
  /\ faults' = faults + 1
  /\ calls' = [calls EXCEPT ![c] = Respond(@, 500, "", "Failed to process request")]
  /\ UNCHANGED << now, ticks, ledger, bucket, stream, worker, hist >>

\* --------------------------------------------------- worker: handler
\* The event source hands the worker one stream record per invocation
\* (batchSize 1), the records of one item in order, the next one when the
\* invocation before it has ended.
IdleWorker ==
  [pc |-> "idle", requestRecord |-> NoItem, isCompleted |-> FALSE,
   timer |-> "unset", result |-> "", armedDuring |-> {}, outcome |-> ""]

Running(id) == worker[id].pc \notin {"idle", "done"} \/ worker[id].timer = "deleting"

\* Variant without the eventName check: any record with a queued image passes.
WorkerAcceptsAnyEvent(ev) ==
  /\ ev.hasImage
  /\ ev.NewImage.status = queued

\* Variant that takes MODIFY records as well as INSERT records.
WorkerAcceptsModify(ev) ==
  /\ ev.eventName \in {"INSERT", "MODIFY"}
  /\ ev.hasImage
  /\ ev.NewImage.status = queued

\* record.eventName === 'INSERT', a NewImage, and status queued in it
WorkerAccepts(ev) ==
  /\ ev.eventName = "INSERT"
  /\ ev.hasImage
  /\ ev.NewImage.status = queued

\* the three `continue`s: the record is dropped and nothing is written
WorkerSkip(id) ==
  /\ ~Running(id)
  /\ stream[id] # << >>
  /\ ~WorkerAccepts(Head(stream[id]))
  /\ stream' = [stream EXCEPT ![id] = Tail(@)]
  /\ UNCHANGED << now, ticks, faults, ledger, bucket, calls, worker, hist >>

\* unmarshall(NewImage), and the UpdateCommand to in-progress sent
WorkerStart(id) ==
  /\ ~Running(id)
  /\ stream[id] # << >>
  /\ WorkerAccepts(Head(stream[id]))
  /\ stream' = [stream EXCEPT ![id] = Tail(@)]
  /\ worker' = [worker EXCEPT ![id] =
                  [IdleWorker EXCEPT !.pc = "update",
                                     !.requestRecord = Head(stream[id]).NewImage]]
  /\ hist' = [hist EXCEPT ![id].startedAt = now]
  /\ UNCHANGED << now, ticks, faults, ledger, bucket, calls >>

\* the update to in-progress lands; isCompleted = false, setTimeout, and
\* processApiRequest called: the one fetch of this invocation is under way
WorkerUpdateInProgress(id) ==
  /\ worker[id].pc = "update"
  /\ LET key == worker[id].requestRecord.requestId
         new == UpdateItem(ledger, key, inProgress, Undefined)
     IN  /\ ledger' = new
         /\ stream' = Emit(key, ledger, new)
  /\ worker' = [worker EXCEPT ![id] =
                  [@ EXCEPT !.pc = "await", !.isCompleted = FALSE, !.timer = "armed",
                            !.armedDuring = { c \in CallIds : InFlight(c) }]]
  /\ hist' = [hist EXCEPT ![id].upstreamCalls = @ + 1,
                          ![id].armedAt = now,
                          ![id].callsInWindow =
                             IF hist[id].windowStart # NoNum
                                /\ now <= hist[id].windowStart + RetentionSecs
                               THEN @ + 1 ELSE @]
  /\ UNCHANGED << now, ticks, faults, bucket, calls >>

\* Variant in which the failed update is caught by the inner catch, which
\* deletes the record.
WorkerUpdateInProgressFailsToCatch(id) ==
  /\ worker[id].pc = "update"
  /\ MayFail
  /\ faults' = faults + 1
  /\ worker' = [worker EXCEPT ![id] = [@ EXCEPT !.pc = "catch", !.outcome = "failed"]]
  /\ UNCHANGED << now, ticks, ledger, bucket, stream, calls, hist >>

\* the update throws: the outer catch logs, the loop ends
WorkerUpdateInProgressFails(id) ==
  /\ worker[id].pc = "update"
  /\ MayFail
  /\ faults' = faults + 1
  /\ worker' = [worker EXCEPT ![id] = [@ EXCEPT !.pc = "done", !.outcome = "error"]]
  /\ UNCHANGED << now, ticks, ledger, bucket, stream, calls, hist >>

\* An intake invocation lasts at most IntakeBudgetSecs and the timer runs
\* TimerSecs: the invocations in flight when the timer was set have ended
\* when it fires.
TimerDue(id) ==
  TimerSecs > IntakeBudgetSecs =>
    \A c \in worker[id].armedDuring : ~InFlight(c)

\* the setTimeout callback: the flag tested and set, the DeleteCommand sent
TimerFires(id) ==
  /\ worker[id].pc = "await"
  /\ worker[id].timer = "armed"
  /\ TimerDue(id)
  /\ worker' = [worker EXCEPT ![id] =
                  IF @.isCompleted
                    THEN [@ EXCEPT !.timer = "fired"]
                    ELSE [@ EXCEPT !.isCompleted = TRUE, !.timer = "deleting"]]
  /\ hist' = [hist EXCEPT ![id].aborts = @ + 1]
  /\ UNCHANGED << now, ticks, faults, ledger, bucket, stream, calls >>

\* the callback's delete lands
TimerDelete(id) ==
  /\ worker[id].timer = "deleting"
  /\ LET key == worker[id].requestRecord.requestId
         new == DeleteItem(ledger, key)
     IN  /\ ledger' = new
         /\ stream' = Emit(key, ledger, new)
  /\ worker' = [worker EXCEPT ![id] = [@ EXCEPT !.timer = "fired"]]
  /\ UNCHANGED << now, ticks, faults, bucket, calls, hist >>

\* the callback's delete throws: caught and logged in the callback
TimerDeleteFails(id) ==
  /\ worker[id].timer = "deleting"
  /\ MayFail
  /\ faults' = faults + 1
  /\ worker' = [worker EXCEPT ![id] = [@ EXCEPT !.timer = "fired"]]
  /\ UNCHANGED << now, ticks, ledger, bucket, stream, calls, hist >>

\* processApiRequest: a network error and a 301 / 302 throw; any other
\* response, ok or not, returns its text
ApiThrows(o) == o.kind = "neterr" \/ o.status = 301 \/ o.status = 302

\* Variant that leaves the timer as it is.
ClearTimeoutKeeps(t) == t

\* clearTimeout(timeoutId): a timer that has not fired never will
ClearTimeout(t) == IF t = "armed" THEN "cleared" ELSE t

\* Variant without the isCompleted test after the await.
UpstreamSettledNoFlag(w, o) ==
  IF ApiThrows(o)
    THEN [w EXCEPT !.pc = "catch", !.timer = ClearTimeout(@), !.outcome = "failed"]
  ELSE [w EXCEPT !.pc = "s3put", !.isCompleted = TRUE, !.timer = ClearTimeout(@),
                 !.result = o.text]

\* await processApiRequest(...) settles, and the code up to the next await
UpstreamSettled(w, o) ==
  IF ApiThrows(o)
    THEN [w EXCEPT !.pc = "catch", !.timer = ClearTimeout(@), !.outcome = "failed"]
  ELSE IF w.isCompleted
    THEN [w EXCEPT !.pc = "done", !.outcome = "ignored"]
  ELSE [w EXCEPT !.pc = "s3put", !.isCompleted = TRUE, !.timer = ClearTimeout(@),
                 !.result = o.text]

UpstreamSettles(id, o) ==
  /\ worker[id].pc = "await"
  /\ worker' = [worker EXCEPT ![id] = UpstreamSettled(@, o)]
  /\ hist' = [hist EXCEPT ![id].aborts = IF ApiThrows(o) THEN @ + 1 ELSE @]
  /\ UNCHANGED << now, ticks, faults, ledger, bucket, stream, calls >>

\* PutObjectCommand lands; the UpdateCommand to complete sent
WorkerS3Put(id) ==
  /\ worker[id].pc = "s3put"
  /\ bucket' = With(bucket, S3KeyOf(worker[id].requestRecord.requestId),
                    worker[id].result)
  /\ worker' = [worker EXCEPT ![id] = [@ EXCEPT !.pc = "complete"]]
  /\ UNCHANGED << now, ticks, faults, ledger, stream, calls, hist >>

\* PutObjectCommand throws inside the try: the catch deletes the record
WorkerS3PutFails(id) ==
  /\ worker[id].pc = "s3put"
  /\ MayFail
  /\ faults' = faults + 1
  /\ worker' = [worker EXCEPT ![id] =
                  [@ EXCEPT !.pc = "catch", !.timer = ClearTimeout(@),
                            !.outcome = "failed"]]
  /\ UNCHANGED << now, ticks, ledger, bucket, stream, calls, hist >>

\* the update to complete, with the s3Key, lands
WorkerUpdateComplete(id) ==
  /\ worker[id].pc = "complete"
  /\ LET key == worker[id].requestRecord.requestId
         new == UpdateItem(ledger, key, complete, S3KeyOf(key))
     IN  /\ ledger' = new
         /\ stream' = Emit(key, ledger, new)
  /\ worker' = [worker EXCEPT ![id] = [@ EXCEPT !.pc = "done", !.outcome = "complete"]]
  /\ hist' = [hist EXCEPT ![id].completions = @ + 1,
                          ![id].completedBody = worker[id].result]
  /\ UNCHANGED << now, ticks, faults, bucket, calls >>

WorkerUpdateCompleteFails(id) ==
  /\ worker[id].pc = "complete"
  /\ MayFail
  /\ faults' = faults + 1
  /\ worker' = [worker EXCEPT ![id] =
                  [@ EXCEPT !.pc = "catch", !.timer = ClearTimeout(@),
                            !.outcome = "failed"]]
  /\ UNCHANGED << now, ticks, ledger, bucket, stream, calls, hist >>

\* Variant whose catch block leaves the record in the ledger.
WorkerCatchKeeps(id) ==
  /\ worker[id].pc = "catch"
  /\ worker' = [worker EXCEPT ![id] = [@ EXCEPT !.pc = "done"]]
  /\ UNCHANGED << now, ticks, faults, ledger, bucket, stream, calls, hist >>

\* the catch block's DeleteCommand lands
WorkerCatchDelete(id) ==
  /\ worker[id].pc = "catch"
  /\ LET key == worker[id].requestRecord.requestId
         new == DeleteItem(ledger, key)
     IN  /\ ledger' = new
         /\ stream' = Emit(key, ledger, new)
  /\ worker' = [worker EXCEPT ![id] = [@ EXCEPT !.pc = "done"]]
  /\ UNCHANGED << now, ticks, faults, bucket, calls, hist >>

\* the catch block's DeleteCommand throws: the outer catch logs
WorkerCatchDeleteFails(id) ==
  /\ worker[id].pc = "catch"
  /\ MayFail
  /\ faults' = faults + 1
  /\ worker' = [worker EXCEPT ![id] = [@ EXCEPT !.pc = "done", !.outcome = "error"]]
  /\ UNCHANGED << now, ticks, ledger, bucket, stream, calls, hist >>

\* The fetch is still pending when the function's timeout ends the
\* invocation; the timer, TimerSecs < WorkerBudgetSecs, has fired by then.
WorkerTimesOut(id) ==
  /\ worker[id].pc = "await"
  /\ TimerSecs < WorkerBudgetSecs => worker[id].timer \in {"deleting", "fired"}
  /\ worker' = [worker EXCEPT ![id] = [@ EXCEPT !.pc = "done", !.outcome = "killed"]]
  /\ UNCHANGED << now, ticks, faults, ledger, bucket, stream, calls, hist >>

\* ------------------------------------------------------ environment
\* Time passes.  A delay longer than the retention window only passes while
\* no invocation runs (both budgets are far shorter) and no stream record
\* waits for the worker (the event source hands records over without a
\* batching window).
Delays == {RetentionSecs + 1}

Quiescent ==
  /\ \A c \in CallIds : ~InFlight(c)
  /\ \A id \in RequestIds : ~Running(id) /\ stream[id] = << >>

Tick(d) ==
  /\ ticks < MaxTicks
  /\ d >= IntakeBudgetSecs \/ d >= WorkerBudgetSecs => Quiescent
  /\ now' = now + d
  /\ ticks' = ticks + 1
  /\ UNCHANGED << faults, ledger, bucket, stream, calls, worker, hist >>

\* timeToLiveAttribute 'ttl': the table's background sweep removes an item
\* whose ttl has passed (a REMOVE record goes to the stream)
TtlSweep(id) ==
  /\ id \in DOMAIN ledger
  /\ ledger[id].ttl # NoNum
  /\ ledger[id].ttl < now
  /\ ledger' = DeleteItem(ledger, id)
  /\ stream' = Emit(id, ledger, ledger')
  /\ UNCHANGED << now, ticks, faults, bucket, calls, worker, hist >>

\* ----------------------------------------------------- specification
NoHist ==
  [created |-> 0, upstreamCalls |-> 0, windowStart |-> NoNum, callsInWindow |-> 0,
   completions |-> 0, completedBody |-> Undefined, aborts |-> 0,
   redelivered |-> 0, startedAt |-> NoNum, armedAt |-> NoNum]

Init ==
  /\ now = 0
  /\ ticks = 0
  /\ faults = 0
  /\ ledger = << >>
  /\ bucket = << >>
  /\ stream = [id \in RequestIds |-> << >>]
  /\ calls = [c \in CallIds |-> IdleCall]
  /\ worker = [id \in RequestIds |-> IdleWorker]
  /\ hist = [id \in RequestIds |-> NoHist]

\* A stream record the worker drops changes nothing, whenever it is handed
\* over, so it is handed over before anything else happens: the other steps
\* wait for it.
StreamDrained ==
  \A id \in RequestIds :
    IF Running(id) \/ stream[id] = << >> THEN TRUE
    ELSE WorkerAccepts(Head(stream[id]))

Next ==
  \/ \E id \in RequestIds : WorkerSkip(id)
  \/ \E c \in 1 .. MaxSubmits, i \in Inputs : StreamDrained /\ Submit(c, i[1], i[2])
  \/ \E c \in CallIds : StreamDrained /\ IntakeGet(c)
  \/ \E c \in CallIds : StreamDrained /\ IntakeGetFails(c)
  \/ \E c \in CallIds : StreamDrained /\ IntakeS3Get(c)
  \/ \E c \in CallIds : StreamDrained /\ IntakeS3GetFails(c)
  \/ \E c \in CallIds : StreamDrained /\ IntakeDeleteRecord(c)
  \/ \E c \in CallIds : StreamDrained /\ IntakeDeleteRecordFails(c)
  \/ \E c \in CallIds : StreamDrained /\ IntakeDeleteObject(c)
  \/ \E c \in CallIds : StreamDrained /\ IntakeDeleteObjectFails(c)
  \/ \E c \in CallIds : StreamDrained /\ IntakePut(c)
  \/ \E c \in CallIds : StreamDrained /\ IntakePutFails(c)
  \/ \E id \in RequestIds : StreamDrained /\ WorkerStart(id)
  \/ \E id \in RequestIds : StreamDrained /\ WorkerUpdateInProgress(id)
  \/ \E id \in RequestIds : StreamDrained /\ WorkerUpdateInProgressFails(id)
  \/ \E id \in RequestIds : StreamDrained /\ TimerFires(id)
  \/ \E id \in RequestIds : StreamDrained /\ TimerDelete(id)
  \/ \E id \in RequestIds : StreamDrained /\ TimerDeleteFails(id)
  \/ \E id \in RequestIds, o \in UpstreamOutcomes :
        StreamDrained /\ UpstreamSettles(id, o)
  \/ \E id \in RequestIds : StreamDrained /\ WorkerS3Put(id)
  \/ \E id \in RequestIds : StreamDrained /\ WorkerS3PutFails(id)
  \/ \E id \in RequestIds : StreamDrained /\ WorkerUpdateComplete(id)
  \/ \E id \in RequestIds : StreamDrained /\ WorkerUpdateCompleteFails(id)
  \/ \E id \in RequestIds : StreamDrained /\ WorkerCatchDelete(id)
  \/ \E id \in RequestIds : StreamDrained /\ WorkerCatchDeleteFails(id)
  \/ \E id \in RequestIds : StreamDrained /\ WorkerTimesOut(id)
  \/ \E d \in Delays : StreamDrained /\ Tick(d)
  \/ \E id \in RequestIds : StreamDrained /\ TtlSweep(id)

Spec == Init /\ [][Next]_vars

\* One client after the other (no two intake invocations overlap), the
\* stores never fail and the clock stands still: longer runs of the worker
\* against a polling client.
NextSeq ==
  \/ \E id \in RequestIds : WorkerSkip(id)
  \/ \E c \in 1 .. MaxSeqSubmits, i \in Inputs :
        /\ StreamDrained
        /\ \A d \in CallIds : ~InFlight(d)
        /\ Submit(c, i[1], i[2])
  \/ \E c \in CallIds : StreamDrained /\ IntakeGet(c)
  \/ \E c \in CallIds : StreamDrained /\ IntakeS3Get(c)
  \/ \E c \in CallIds : StreamDrained /\ IntakeS3GetFails(c)
  \/ \E c \in CallIds : StreamDrained /\ IntakeDeleteRecord(c)
  \/ \E c \in CallIds : StreamDrained /\ IntakeDeleteObject(c)
  \/ \E c \in CallIds : StreamDrained /\ IntakePut(c)
  \/ \E id \in RequestIds : StreamDrained /\ WorkerStart(id)
  \/ \E id \in RequestIds : StreamDrained /\ WorkerUpdateInProgress(id)
  \/ \E id \in RequestIds : StreamDrained /\ TimerFires(id)
  \/ \E id \in RequestIds : StreamDrained /\ TimerDelete(id)
  \/ \E id \in RequestIds, o \in UpstreamOutcomes :
        StreamDrained /\ UpstreamSettles(id, o)
  \/ \E id \in RequestIds : StreamDrained /\ WorkerS3Put(id)
  \/ \E id \in RequestIds : StreamDrained /\ WorkerUpdateComplete(id)
  \/ \E id \in RequestIds : StreamDrained /\ WorkerCatchDelete(id)
  \/ \E id \in RequestIds : StreamDrained /\ WorkerTimesOut(id)

SpecSeq == Init /\ [][NextSeq]_vars

\* A client that keeps asking: invocation 1 is its current call, and when the
\* call is answered with anything but 200 the client sends the same request
\* again.  The other clients of the identity call a bounded number of times.
\* Every upstream call returns 200 before the timer fires and no store
\* operation fails; the scheduling of the invocations is fair.
Recycle(c) ==
  /\ calls[c].pc = "done"
  /\ calls[c].statusCode # 200
  /\ calls' = [calls EXCEPT ![c] = IdleCall]
  /\ UNCHANGED << now, ticks, faults, ledger, bucket, stream, worker, hist >>

Returns(o) == o.kind = "response" /\ o.status = 200

ClientStep(c) ==
  \/ \E i \in ValidInputs : Submit(c, i[1], i[2])
  \/ Recycle(c)

IntakeStep(c) ==
  \/ IntakeGet(c)
  \/ IntakeS3Get(c)
  \/ IntakeS3GetFails(c) /\ faults' = faults
  \/ IntakeDeleteRecord(c)
  \/ IntakeDeleteObject(c)
  \/ IntakePut(c)

WorkerStep(id) ==
  \/ WorkerStart(id)
  \/ WorkerUpdateInProgress(id)
  \/ \E o \in UpstreamOutcomes : Returns(o) /\ UpstreamSettles(id, o)
  \/ WorkerS3Put(id)
  \/ WorkerUpdateComplete(id)

NextLive ==
  \/ \E id \in RequestIds : WorkerSkip(id)
  \/ \E i \in ValidInputs : StreamDrained /\ Submit(1, i[1], i[2])
  \/ StreamDrained /\ Recycle(1)
  \/ \E c \in 2 .. MaxSubmits, i \in ValidInputs : StreamDrained /\ Submit(c, i[1], i[2])
  \/ \E c \in CallIds : StreamDrained /\ IntakeGet(c)
  \/ \E c \in CallIds : StreamDrained /\ IntakeS3Get(c)
  \/ \E c \in CallIds : StreamDrained /\ IntakeS3GetFails(c) /\ faults' = faults
  \/ \E c \in CallIds : StreamDrained /\ IntakeDeleteRecord(c)
  \/ \E c \in CallIds : StreamDrained /\ IntakeDeleteObject(c)
  \/ \E c \in CallIds : StreamDrained /\ IntakePut(c)
  \/ \E id \in RequestIds : StreamDrained /\ WorkerStart(id)
  \/ \E id \in RequestIds : StreamDrained /\ WorkerUpdateInProgress(id)
  \/ \E id \in RequestIds, o \in UpstreamOutcomes :
        StreamDrained /\ Returns(o) /\ UpstreamSettles(id, o)
  \/ \E id \in RequestIds : StreamDrained /\ WorkerS3Put(id)
  \/ \E id \in RequestIds : StreamDrained /\ WorkerUpdateComplete(id)

FairLive ==
  /\ WF_vars(StreamDrained /\ ClientStep(1))
  /\ \A c \in CallIds : WF_vars(StreamDrained /\ IntakeStep(c))
  /\ \A id \in RequestIds : WF_vars(WorkerSkip(id))
  /\ \A id \in RequestIds : WF_vars(StreamDrained /\ WorkerStep(id))

SpecLive == Init /\ [][NextLive]_vars /\ FairLive

\* Two pairs whose `${cookie}:${dea}` strings are the same, and an upstream
\* whose answer names the query it was sent: the Cookie header and the dea
\* as processApiRequest sanitizes it.  Every call returns in time and no
\* store operation fails.
CollidingInputs == { <<"a", "b:c">>, <<"a:b", "c">> }

\* dea.replace(/[^a-zA-Z0-9]/g, ''), on the deas in play
SanitizedDea(dea) ==
  CASE dea = "b:c" -> "bc"
    [] OTHER -> dea

Answer(cookie, dea) ==
  [kind |-> "response", status |-> 200,
   text |-> "<html>" \o cookie \o "|" \o SanitizedDea(dea) \o "</html>"]

NextIso ==
  \/ \E id \in RequestIds : WorkerSkip(id)
  \/ \E c \in 1 .. MaxSubmits, i \in CollidingInputs :
        StreamDrained /\ Submit(c, i[1], i[2])
  \/ \E c \in CallIds : StreamDrained /\ IntakeGet(c)
  \/ \E c \in CallIds : StreamDrained /\ IntakeS3Get(c)
  \/ \E c \in CallIds : StreamDrained /\ IntakeS3GetFails(c) /\ faults' = faults
  \/ \E c \in CallIds : StreamDrained /\ IntakeDeleteRecord(c)
  \/ \E c \in CallIds : StreamDrained /\ IntakeDeleteObject(c)
  \/ \E c \in CallIds : StreamDrained /\ IntakePut(c)
  \/ \E id \in RequestIds : StreamDrained /\ WorkerStart(id)
  \/ \E id \in RequestIds : StreamDrained /\ WorkerUpdateInProgress(id)
  \/ \E id \in RequestIds :
        /\ StreamDrained
        /\ UpstreamSettles(id, Answer(worker[id].requestRecord.cookie,
                                      worker[id].requestRecord.dea))
  \/ \E id \in RequestIds : StreamDrained /\ WorkerS3Put(id)
  \/ \E id \in RequestIds : StreamDrained /\ WorkerUpdateComplete(id)

SpecIso == Init /\ [][NextIso]_vars

\* The event source delivers at least once: the record the last invocation
\* handled is handed to the worker again.
Redeliver(id) ==
  /\ worker[id].pc = "done"
  /\ ~Running(id)
  /\ hist[id].redelivered < MaxRedeliveries
  /\ stream' = [stream EXCEPT ![id] =
                  << [eventName |-> "INSERT", hasImage |-> TRUE,
                      NewImage |-> worker[id].requestRecord] >> \o @]
  /\ hist' = [hist EXCEPT ![id].redelivered = @ + 1]
  /\ UNCHANGED << now, ticks, faults, ledger, bucket, calls, worker >>

NextDup ==
  \/ \E id \in RequestIds : WorkerSkip(id)
  \/ \E c \in 1 .. MaxSubmits, i \in Inputs : StreamDrained /\ Submit(c, i[1], i[2])
  \/ \E c \in CallIds : StreamDrained /\ IntakeGet(c)
  \/ \E c \in CallIds : StreamDrained /\ IntakeS3Get(c)
  \/ \E c \in CallIds : StreamDrained /\ IntakeS3GetFails(c) /\ faults' = faults
  \/ \E c \in CallIds : StreamDrained /\ IntakeDeleteRecord(c)
  \/ \E c \in CallIds : StreamDrained /\ IntakeDeleteObject(c)
  \/ \E c \in CallIds : StreamDrained /\ IntakePut(c)
  \/ \E id \in RequestIds : StreamDrained /\ WorkerStart(id)
  \/ \E id \in RequestIds : StreamDrained /\ WorkerUpdateInProgress(id)
  \/ \E id \in RequestIds, o \in UpstreamOutcomes :
        StreamDrained /\ UpstreamSettles(id, o)
  \/ \E id \in RequestIds : StreamDrained /\ WorkerS3Put(id)
  \/ \E id \in RequestIds : StreamDrained /\ WorkerUpdateComplete(id)
  \/ \E id \in RequestIds : StreamDrained /\ WorkerCatchDelete(id)
  \/ \E id \in RequestIds : StreamDrained /\ Redeliver(id)

SpecDup == Init /\ [][NextDup]_vars

\* ---------------------------------------------- the worker on the clock
\* The worker's invocation with its two deadlines measured: the function's
\* timeout counts from the start of the invocation, the timer from the
\* setTimeout call, which follows the awaited update to in-progress.  No
\* call of the worker carries a deadline of its own.
ClockSteps == {5, 30}

BudgetEndsAt(id) == hist[id].startedAt + WorkerBudgetSecs
TimerEndsAt(id) == hist[id].armedAt + TimerSecs

\* Seconds pass while an invocation runs, up to its next deadline.
Elapse(d) ==
  /\ \E id \in RequestIds : worker[id].pc \notin {"idle", "done"}
  /\ \A id \in RequestIds :
       /\ worker[id].pc \notin {"idle", "done"} => now + d <= BudgetEndsAt(id)
       /\ (worker[id].pc = "await" /\ worker[id].timer = "armed")
            => now + d <= TimerEndsAt(id)
  /\ now' = now + d
  /\ UNCHANGED << ticks, faults, ledger, bucket, stream, calls, worker, hist >>

\* the setTimeout callback runs once its delay has passed
ClockTimerFires(id) ==
  /\ now >= TimerEndsAt(id)
  /\ TimerFires(id)

\* timeout: Duration.seconds(70): the invocation is ended wherever it is; a
\* request already sent still reaches its store.  A timer due at the same
\* instant runs first.
BudgetEnds(id) ==
  /\ worker[id].pc \notin {"idle", "done"}
  /\ now >= BudgetEndsAt(id)
  /\ ~(worker[id].pc = "await" /\ worker[id].timer = "armed" /\ now >= TimerEndsAt(id))
  /\ worker' = [worker EXCEPT ![id] = [@ EXCEPT !.pc = "done", !.outcome = "killed"]]
  /\ UNCHANGED << now, ticks, faults, ledger, bucket, stream, calls, hist >>

NextClock ==
  \/ \E id \in RequestIds : WorkerSkip(id)
  \/ \E c \in 1 .. MaxClockSubmits, i \in Inputs : StreamDrained /\ Submit(c, i[1], i[2])
  \/ \E c \in CallIds : StreamDrained /\ IntakeGet(c)
  \/ \E c \in CallIds : StreamDrained /\ IntakePut(c)
  \/ \E id \in RequestIds : StreamDrained /\ WorkerStart(id)
  \/ \E id \in RequestIds : StreamDrained /\ WorkerUpdateInProgress(id)
  \/ \E id \in RequestIds : StreamDrained /\ ClockTimerFires(id)
  \/ \E id \in RequestIds : StreamDrained /\ TimerDelete(id)
  \/ \E id \in RequestIds, o \in UpstreamOutcomes :
        StreamDrained /\ UpstreamSettles(id, o)
  \/ \E id \in RequestIds : StreamDrained /\ WorkerS3Put(id)
  \/ \E id \in RequestIds : StreamDrained /\ WorkerUpdateComplete(id)
  \/ \E id \in RequestIds : StreamDrained /\ WorkerCatchDelete(id)
  \/ \E id \in RequestIds : StreamDrained /\ BudgetEnds(id)
  \/ \E d \in ClockSteps : StreamDrained /\ Elapse(d)

SpecClock == Init /\ [][NextClock]_vars

\* ================================================================ claims
\* The step in which the response of invocation c is decided.
Answers(c) == calls[c].statusCode = 0 /\ calls'[c].statusCode # 0

\* Invocations for identity id answered so far with the given status code.
Answered(id, code) ==
  { c \in CallIds : calls[c].requestId = id /\ calls[c].pc = "done"
                    /\ calls[c].statusCode = code }

C2_LosersLeaveRecord ==
  [][\A c \in CallIds :
       (calls[c].pc = "put" /\ calls'[c].pc = "done" /\ calls'[c].statusCode = 202
        /\ calls[c].requestId \in DOMAIN ledger)
         => (ledger' = ledger /\ stream' = stream)]_vars

\* ---------------------------------------------------------------- C3
\* C3: a submit that consumes a complete record answers 200 with the body the
\* upstream returned for the promotion that completed it, and when it has
\* answered neither the record nor the blob is there.
C3_RoundTrip ==
  [][\A c \in CallIds :
       (Answers(c) /\ calls'[c].statusCode = 200 /\ calls'[c].alone)
         => /\ calls'[c].body = hist[calls[c].requestId].completedBody
            /\ calls[c].requestId \notin DOMAIN ledger'
            /\ S3KeyOf(calls[c].requestId) \notin DOMAIN bucket']_vars

\* ---------------------------------------------------------------- C4
\* C4: each completion of a record is delivered by at most one 200 response.
C4_ConsumeOnce ==
  \A id \in RequestIds : Cardinality(Answered(id, 200)) <= hist[id].completions

\* ---------------------------------------------------------------- C5
\* C5: one client submitting one identity again and again, no worker run
\* aborted: the first submit answers 202 queued and creates the record; a
\* submit while no completed result waits answers 202 with the record's
\* status and writes nothing; a submit when one waits answers 200 with its
\* body; the submit after a 200 answers 202 queued and creates a fresh record;
\* and every creation has led, or will lead, to exactly one promotion.
Promotions(id) ==
  hist[id].upstreamCalls
    + Cardinality({ k \in DOMAIN stream[id] : WorkerAccepts(stream[id][k]) })
    + (IF worker[id].pc = "update" THEN 1 ELSE 0)

C5_SequentialCycle ==
  \A id \in RequestIds :
    (hist[id].aborts = 0 /\ faults = 0
     /\ \A c \in CallIds : calls[c].alone) =>
      /\ \A c \in CallIds :
           LET before == { d \in CallIds : d < c /\ calls[d].requestId = id }
               last == CHOOSE d \in before : \A e \in before : e <= d
               fresh == /\ calls[c].saw = "absent"
                        /\ calls[c].statusCode = 202
                        /\ calls[c].status = queued
                        /\ calls[c].mutated
           IN  (calls[c].pc = "done" /\ calls[c].requestId = id) =>
                 IF before = {} THEN fresh
                 ELSE IF calls[last].statusCode = 200 THEN fresh
                 ELSE IF calls[c].ready
                   THEN /\ calls[c].statusCode = 200
                        /\ calls[c].body = calls[c].expect
                        /\ calls[c].saw = complete
                 ELSE /\ calls[c].statusCode = 202
                      /\ calls[c].saw \in {queued, inProgress}
                      /\ calls[c].status = calls[c].saw
                      /\ ~calls[c].mutated
      /\ hist[id].created =
           Cardinality({ c \in Answered(id, 202) : calls[c].saw = "absent" })
      /\ Promotions(id) = hist[id].created

\* The whole cycle: 202 queued, 202 in-progress, 200, then 202 queued again
\* with a second record created, no worker run aborted.
C5_FullCycle ==
  \E id \in RequestIds :
    /\ hist[id].aborts = 0 /\ faults = 0
    /\ \A c \in CallIds : calls[c].alone
    /\ hist[id].created = 2
    /\ \E c1, c2, c3, c4 \in CallIds :
         /\ c1 < c2 /\ c2 < c3 /\ c3 < c4
         /\ \A c \in {c1, c2, c3, c4} : calls[c].pc = "done" /\ calls[c].requestId = id
         /\ calls[c1].statusCode = 202 /\ calls[c1].status = queued
         /\ calls[c2].statusCode = 202 /\ calls[c2].status = inProgress
         /\ calls[c3].statusCode = 200 /\ calls[c3].body = "<html>OK</html>"
         /\ calls[c4].statusCode = 202 /\ calls[c4].status = queued
         /\ calls[c4].saw = "absent"

\* ---------------------------------------------------------------- C6
\* C6: whatever the upstream and the timer of the worker do, a submit of a
\* client that submits one call after the other, with the stores never
\* failing, is never answered with an error.
C6_NoErrorSurfaced ==
  \A c \in CallIds :
    (calls[c].alone /\ faults = 0) => calls[c].statusCode # 500

\* ---------------------------------------------------------------- C7
\* C7: a submit whose cookie or dea is missing or empty answers 400, and it
\* changes neither the ledger nor the bucket nor the stream, then or later.
C7_InvalidRejected ==
  [][\A c \in CallIds :
       (calls'[c].pc # "idle"
        /\ (Falsy(calls'[c].cookie) \/ Falsy(calls'[c].dea)))
         => /\ calls'[c].pc = "done"
            /\ calls'[c].statusCode = 400
            /\ ~calls'[c].mutated
            /\ (calls[c].pc = "idle" =>
                  ledger' = ledger /\ bucket' = bucket /\ stream' = stream)]_vars

\* A submit without dea was answered 400 while a record of a valid identity
\* was in the ledger.
C7_InvalidAnswered ==
  \E c \in CallIds :
    /\ calls[c].pc = "done" /\ calls[c].statusCode = 400
    /\ ~Falsy(calls[c].cookie) /\ Falsy(calls[c].dea)
    /\ DOMAIN ledger # {}

\* ---------------------------------------------------------------- C8
\* C8: a submit answered 500 has changed neither the ledger nor the bucket.
C8_FailureChangesNothing ==
  \A c \in CallIds : calls[c].statusCode = 500 => ~calls[c].mutated

\* ---------------------------------------------------------------- C9
\* C9: a submit that finds a complete record without s3Key, or whose blob is
\* not in the bucket, answers 500 and leaves the ledger and the bucket as
\* they are.
C9_MissingBlob ==
  [][\A c \in CallIds :
       LET id == calls[c].requestId
           noKey == /\ calls[c].pc = "get"
                    /\ id \in DOMAIN ledger
                    /\ ledger[id].status = complete
                    /\ Falsy(ledger[id].s3Key)
           noBlob == /\ calls[c].pc = "s3get"
                     /\ calls[c].record.s3Key \notin DOMAIN bucket
       IN  ((noKey \/ noBlob) /\ calls'[c].pc # calls[c].pc)
             => /\ calls'[c].pc = "done"
                /\ calls'[c].statusCode = 500
                /\ ~calls'[c].mutated
                /\ ledger' = ledger
                /\ bucket' = bucket]_vars

\* A submit found the record complete and the blob gone, no store operation
\* having failed, answered 500, and the complete record is still in the ledger.
C9_MissingBlobAnswered ==
  \E c \in CallIds :
    /\ calls[c].pc = "done" /\ calls[c].statusCode = 500
    /\ calls[c].saw = complete /\ calls[c].ddbDel = "none"
    /\ faults = 0
    /\ calls[c].requestId \in DOMAIN ledger
    /\ ledger[calls[c].requestId].status = complete
    /\ S3KeyOf(calls[c].requestId) \notin DOMAIN bucket

\* --------------------------------------------------------------- C10
\* C10: a submit whose get lands and finds the record queued or in-progress answers 202
\* with that status and the identity's requestId, and changes nothing, then
\* or later.
C10_PendingUnchanged ==
  [][\A c \in CallIds :
       LET id == calls[c].requestId
       IN  /\ (/\ calls[c].pc = "get" /\ calls'[c].saw # ""
               /\ id \in DOMAIN ledger
               /\ ledger[id].status \in {queued, inProgress})
                => /\ calls'[c].pc = "done"
                   /\ calls'[c].statusCode = 202
                   /\ calls'[c].status = ledger[id].status
                   /\ calls'[c].requestId = ledger[id].requestId
                   /\ ledger' = ledger /\ bucket' = bucket /\ stream' = stream
           /\ calls'[c].saw \in {queued, inProgress} => ~calls'[c].mutated]_vars

\* Both cases: one submit answered 202 queued and one 202 in-progress, each
\* for a record it found.
C10_PendingAnswered ==
  \E c, d \in CallIds :
    /\ calls[c].pc = "done" /\ calls[c].saw = queued
    /\ calls[c].statusCode = 202 /\ calls[c].status = queued
    /\ calls[d].pc = "done" /\ calls[d].saw = inProgress
    /\ calls[d].statusCode = 202 /\ calls[d].status = inProgress

\* --------------------------------------------------------------- C11
\* C11: a get that lands when the clock is past the record's ttl finds
\* nothing: the submit goes on as for an absent identity, to the creation of
\* a new queued record, even if the record was never deleted nor swept.
C11_ExpiredUnreadable ==
  [][\A c \in CallIds :
       LET id == calls[c].requestId
       IN  (/\ calls[c].pc = "get" /\ calls'[c].saw # ""
            /\ id \in DOMAIN ledger
            /\ ledger[id].ttl # NoNum
            /\ ledger[id].ttl < now)
             => (calls'[c].saw = "absent" /\ calls'[c].pc = "put")]_vars

C13_Isolation ==
  /\ \A c, d \in CallIds :
       (calls[c].requestId # Undefined /\ calls[c].requestId = calls[d].requestId)
         => (calls[c].cookie = calls[d].cookie /\ calls[c].dea = calls[d].dea)
  /\ \A c \in CallIds :
       calls[c].statusCode = 200
         => calls[c].body = Answer(calls[c].cookie, calls[c].dea).text

\* --------------------------------------------------------------- C14
\* C14: no step moves the status of a record that stays in the ledger
\* backward: not from in-progress or complete to queued, not from complete
\* to in-progress.
Rank(status) ==
  CASE status = queued -> 1
    [] status = inProgress -> 2
    [] status = complete -> 3
    [] OTHER -> 0

C14_StatusForward ==
  [][\A id \in DOMAIN ledger \cap DOMAIN ledger' :
       Rank(ledger'[id].status) >= Rank(ledger[id].status)]_vars

\* --------------------------------------------------------------- C15
\* C15: a ledger record has an s3Key if and only if its status is complete.
C15_KeyIffComplete ==
  \A id \in DOMAIN ledger :
    (ledger[id].s3Key # Undefined) <=> (ledger[id].status = complete)

\* --------------------------------------------------------------- C16
\* C16: in every state, the s3Key of a complete ledger record names a blob
\* that is in the bucket.
C16_CompleteHasBlob ==
  \A id \in DOMAIN ledger :
    ledger[id].status = complete => ledger[id].s3Key \in DOMAIN bucket

\* --------------------------------------------------------------- C17
\* C17: when no intake invocation and no worker invocation is in flight for
\* an identity, and no stream record of it waits, its blob is in the bucket
\* only if a complete ledger record references it.
C17_NoOrphanBlob ==
  \A id \in RequestIds :
    (/\ \A c \in CallIds : InFlight(c) => calls[c].requestId # id
     /\ ~Running(id)
     /\ stream[id] = << >>
     /\ S3KeyOf(id) \in DOMAIN bucket)
      => /\ id \in DOMAIN ledger
         /\ ledger[id].status = complete
         /\ ledger[id].s3Key = S3KeyOf(id)

\* --------------------------------------------------------------- C18
\* C18: in one worker invocation the timer callback and the continuation of
\* an upstream call that returned do not both claim the flag: never has the
\* timer callback gone on to its delete and the continuation to its put or
\* its update, and whoever went on has set the flag.
TimerWon(id) == worker[id].timer \in {"deleting", "fired"}

C19_TimerWinsNoFurtherWrite ==
  [][\A id \in RequestIds :
       (TimerWon(id) /\ worker'[id].pc # worker[id].pc)
         => (ledger' = ledger /\ bucket' = bucket)]_vars

\* --------------------------------------------------------------- C20
\* C20: when the upstream call returns a body while the timer is still set,
\* the invocation cancels the timer and goes on to the put; the put stores
\* that body under responses/<requestId>.html; the update that follows sets
\* the record to complete with that key; and a cancelled timer stays
\* cancelled to the end of the invocation, so the timer path deletes nothing.
C20_UpstreamWins ==
  [][\A id \in RequestIds :
       LET w == worker[id]
           v == worker'[id]
           key == w.requestRecord.requestId
       IN  /\ (/\ w.pc = "await" /\ v.pc # "await"
               /\ w.timer = "armed"
               /\ v.outcome # "failed")
                => (v.pc = "s3put" /\ v.timer = "cleared" /\ v.isCompleted)
           /\ (w.pc = "s3put" /\ v.pc # "s3put")
                => \/ v.pc = "catch" /\ bucket' = bucket
                   \/ v.pc = "complete" /\ bucket' = With(bucket, S3KeyOf(key), w.result)
           /\ (w.pc = "complete" /\ v.outcome = "complete")
                => /\ key \in DOMAIN ledger'
                   /\ ledger'[key].status = complete
                   /\ ledger'[key].s3Key = S3KeyOf(key)
           /\ w.timer = "cleared" => (v.timer = "cleared" \/ v.pc = "update")]_vars

\* The upstream returned before the timer fired: the invocation has ended,
\* the timer is cancelled, the record is complete and the blob holds the body.
C20_CompletedInTime ==
  \E id \in RequestIds :
    /\ worker[id].pc = "done"
    /\ worker[id].outcome = "complete"
    /\ worker[id].timer = "cleared"
    /\ id \in DOMAIN ledger
    /\ ledger[id].status = complete
    /\ ledger[id].s3Key \in DOMAIN bucket
    /\ bucket[ledger[id].s3Key] = worker[id].result

\* --------------------------------------------------------------- C21
\* C21: when the upstream call fails (network error or redirect) while the
\* timer is still set, the invocation cancels the timer, enters its catch
\* without touching the bucket, and the catch deletes the record; it writes
\* no blob, and the body of a redirect response is never stored.
C21_UpstreamFails ==
  [][\A id \in RequestIds :
       LET w == worker[id]
           v == worker'[id]
           key == w.requestRecord.requestId
       IN  /\ (/\ w.pc = "await" /\ v.pc # "await"
               /\ w.timer = "armed"
               /\ v.outcome = "failed")
                => (v.pc = "catch" /\ v.timer = "cleared" /\ v.result = ""
                    /\ ledger' = ledger /\ bucket' = bucket)
           /\ (/\ w.pc = "catch" /\ v.pc # "catch"
               /\ w.timer = "cleared" /\ w.result = "")
                => \/ /\ v.pc = "done"
                      /\ key \notin DOMAIN ledger'
                      /\ bucket' = bucket
                   \/ v.outcome = "error" /\ faults' = faults + 1
           /\ \A k \in DOMAIN bucket' :
                \E o \in UpstreamOutcomes :
                  /\ o.kind = "response" /\ o.status \notin {301, 302}
                  /\ bucket'[k] = o.text]_vars

\* The upstream call failed before the timer fired: the invocation has
\* ended, the timer is cancelled, the record is gone and no blob was stored.
C21_FailedAndDeleted ==
  \E id \in RequestIds :
    /\ worker[id].pc = "done"
    /\ worker[id].outcome = "failed"
    /\ worker[id].timer = "cleared"
    /\ worker[id].result = ""
    /\ hist[id].created = 1
    /\ id \notin DOMAIN ledger
    /\ bucket = << >>

\* --------------------------------------------------------------- C22
\* C22: when a worker invocation ends all its activity (main flow and timer
\* callback), no store operation having failed and no record of a later
\* cycle waiting in the stream, the record of its identity is absent, or
\* complete with its blob in the bucket.
C22_WorkerEndState ==
  [][\A id \in RequestIds :
       (/\ Running(id) /\ ~Running(id)'
        /\ faults' = 0
        /\ \A k \in DOMAIN stream'[id] : ~WorkerAccepts(stream'[id][k]))
         => \/ id \notin DOMAIN ledger'
            \/ /\ ledger'[id].status = complete
               /\ ledger'[id].s3Key \in DOMAIN bucket']_vars

\* --------------------------------------------------------------- C23
\* C23: the worker begins to handle a stream record (its update to
\* in-progress, then the upstream call) only if the ledger holds the record
\* with status queued; a record delivered again after the promotion, the
\* completion or the deletion of its item is skipped.
C23_DuplicateSkipped ==
  [][\A id \in RequestIds :
       (worker[id].pc # "update" /\ worker'[id].pc = "update")
         => (id \in DOMAIN ledger /\ ledger[id].status = queued)]_vars

\* --------------------------------------------------------------- C24
\* C24: a stream record of an update or of a deletion is taken from the
\* stream without any change to the ledger, the bucket or the worker and
\* without an upstream call; the worker starts only on an INSERT record.
C24_OnlyInserts ==
  [][\A id \in RequestIds :
       (stream[id] # << >> /\ stream'[id] = Tail(stream[id])
        /\ Head(stream[id]).eventName # "INSERT")
         => /\ ledger' = ledger
            /\ bucket' = bucket
            /\ worker' = worker
            /\ hist' = hist]_vars

\* A whole cycle has run (creation, promotion, completion, consumption): the
\* worker's two updates and the consumer's delete each left a stream record,
\* all were taken from the stream, and the upstream was called once.
C24_OwnWritesSkipped ==
  \E id \in RequestIds :
    /\ hist[id].created = 1
    /\ hist[id].upstreamCalls = 1
    /\ hist[id].completions = 1
    /\ Delivered(id) = 1
    /\ id \notin DOMAIN ledger
    /\ stream[id] = << >>
    /\ ~Running(id)

\* --------------------------------------------------------------- C25
\* C25: when the worker's update to in-progress fails, the invocation ends
\* there: the timer is never set, the upstream is not called, the ledger and
\* the bucket are as before, and the invocation does nothing afterwards.
C25_UpdateFailureStops ==
  [][\A id \in RequestIds :
       LET w == worker[id]
           v == worker'[id]
       IN  /\ (w.pc = "update" /\ v.pc # "update" /\ faults' = faults + 1)
                => /\ v.pc = "done"
                   /\ v.timer = "unset"
                   /\ ledger' = ledger
                   /\ bucket' = bucket
                   /\ hist'[id].upstreamCalls = hist[id].upstreamCalls
           /\ (w.pc = "done" /\ w.timer = "unset" /\ v # w)
                => (v.pc = "update" /\ Len(stream'[id]) < Len(stream[id]))]_vars

\* The update failed: the invocation has ended without a timer and without
\* an upstream call, and the record is still queued in the ledger.
C25_StoppedAfterFailure ==
  \E id \in RequestIds :
    /\ worker[id].pc = "done"
    /\ worker[id].outcome = "error"
    /\ worker[id].timer = "unset"
    /\ hist[id].upstreamCalls = 0
    /\ id \in DOMAIN ledger
    /\ ledger[id].status = queued
    /\ bucket = << >>

\* --------------------------------------------------------------- C26
\* C26: an update to in-progress, an update to complete or a delete that the
\* worker issues while the ledger has no record of the identity leaves the
\* ledger without a record of it.
C26_AbsentStaysAbsent ==
  [][\A id \in RequestIds :
       (/\ worker[id].pc \in {"update", "complete", "catch"}
        /\ worker'[id].pc # worker[id].pc
        /\ id \notin DOMAIN ledger)
         => id \notin DOMAIN ledger']_vars

\* --------------------------------------------------------------- C27
\* C27: when the function's timeout ends an invocation whose upstream call is
\* still pending, the timer has fired and the delete of the record has been
\* issued.
C27_TimerBeatsBudget ==
  [][\A id \in RequestIds :
       (/\ worker[id].pc = "await"
        /\ worker'[id].pc = "done"
        /\ worker'[id].outcome = "killed")
         => worker[id].timer \in {"deleting", "fired"}]_vars

\* --------------------------------------------------------------- C28
\* C28: once an invocation's timer has deleted the record (no store
\* operation having failed), nothing that invocation does afterwards, when
\* its upstream call returns or throws, changes the ledger or the bucket: a
\* record or a blob found there belongs to a later cycle.
C28_OwnCycleOnly ==
  [][\A id \in RequestIds :
       (/\ faults' = 0
        /\ worker[id].timer = "fired"
        /\ worker[id].pc \in {"await", "catch"}
        /\ worker'[id].pc # worker[id].pc)
         => (ledger' = ledger /\ bucket' = bucket)]_vars

\* --------------------------------------------------------------- C29
\* C29: every record in the ledger has its credential, its lookup key, its
\* creation time and an expiry of creation time + 3600 seconds.
C29_AllFields ==
  \A id \in DOMAIN ledger :
    /\ ledger[id].cookie # Undefined
    /\ ledger[id].dea # Undefined
    /\ ledger[id].createdAt # NoNum
    /\ ledger[id].ttl # NoNum
    /\ ledger[id].ttl = ledger[id].createdAt + RetentionSecs

\* --------------------------------------------------------------- C30
\* C30: while no store operation has failed, a record with status queued has
\* an INSERT record waiting in the stream that the worker will act on, or a
\* worker about to promote it.
C30_NotStranded ==
  \A id \in DOMAIN ledger :
    (faults = 0 /\ ledger[id].status = queued)
      => \/ \E k \in 1 .. Len(stream[id]) : WorkerAccepts(stream[id][k])
         \/ worker[id].pc = "update"

====
